---------------------------- MODULE Spec2Model ----------------------------
(***************************************************************************)
(* Model of the log pipeline: the log-processor (ProcessLogs, one          *)
(* ProcessLogFile goroutine per file, one PublishToKafka goroutine per     *)
(* batch), the Kafka topic, and the two workers of the log-subscriber      *)
(* (FileWorker, StatsWorker).                                              *)
(*                                                                         *)
(* Text is modelled as a sequence of tokens (a token is a TLA+ string):    *)
(* the Go string "1:10::main 2023-01-01 00:00:00,000 - start" is           *)
(* <<"1", ":", "10", "::", "main", " ", "2023", "-", "01", "-", "01", " ", *)
(*   "00:00:00,000", " - ", "start">>.  Regular expressions and            *)
(* strings.Split work on the tokens.                                       *)
(***************************************************************************)
EXTENDS Integers, Sequences, FiniteSets, TLC

(***************************************************************************)
(* Bounds of the model.  maxParallelLines and maxFilesPerBatch are 100 and *)
(* 10 in log_processor.go:63-64; the model scales them down.               *)
(***************************************************************************)
maxParallelLines == 1

maxFilesPerBatch == 2

MaxFiles == 3

MaxLines == 3

MaxPartitions == 2

MaxMsgs == 3

MaxProducers == 2

MaxCalls == 2

(***************************************************************************)
(* Tokens                                                                  *)
(***************************************************************************)
NL == "\n"

SEP == " - "

DigitToks == {"1", "2", "10", "11", "20", "2023", "01", "13"}

D4Toks == {"2023"}

D2Toks == {"01", "13"}

TimeToks == {"00:00:00,000", "00:00:01,000", "00:00:01,500", "00:00:02,500"}

AlphaToks == {"main", "worker", "w", "cont1", "foo", "bar", "start", "end", "hello"}

\* [\w-] : a token made of word characters, or a hyphen
WordTok(t) == t \in DigitToks \cup AlphaToks \cup {"-"}

(***************************************************************************)
(* strings.Split(s, sep) on tokens: n separators give n+1 parts.           *)
(***************************************************************************)
RECURSIVE SplitFrom(_, _, _, _)
SplitFrom(s, sep, i, cur) ==
    IF i > Len(s) THEN <<cur>>
    ELSE IF s[i] = sep THEN <<cur>> \o SplitFrom(s, sep, i + 1, <<>>)
    ELSE SplitFrom(s, sep, i + 1, Append(cur, s[i]))

Split(s, sep) == SplitFrom(s, sep, 1, <<>>)

\* The token " - " is the three characters ' ', '-', ' ': a split on "-"
\* cuts it too.
RECURSIVE Chars(_)
Chars(s) ==
    IF s = <<>> THEN <<>>
    ELSE (IF Head(s) = SEP THEN <<" ", "-", " ">> ELSE <<Head(s)>>) \o Chars(Tail(s))

(***************************************************************************)
(* The header pattern of ProcessLogFile (log_processor.go:113):           *)
(* digits ":" digits "::" name " " yyyy-mm-dd " " hh:mm:ss,mmm " - " rest. *)
(* The match is not anchored: it may start anywhere in the line.           *)
(***************************************************************************)
Tok(s, i) == IF i >= 1 /\ i <= Len(s) THEN s[i] ELSE "<eof>"

\* end of the run of [\w-] tokens that starts at j (first index after it)
NameEnd(s, j) ==
    CHOOSE k \in j..(Len(s) + 1) :
        /\ \A m \in j..(k - 1) : WordTok(s[m])
        /\ (k = Len(s) + 1 \/ ~WordTok(s[k]))

\* the pattern up to and including " - " matches at token i
HeaderAt(s, i) ==
    LET k == NameEnd(s, i + 4) IN
    /\ Tok(s, i) \in DigitToks
    /\ Tok(s, i + 1) = ":"
    /\ Tok(s, i + 2) \in DigitToks
    /\ Tok(s, i + 3) = "::"
    /\ i + 4 <= Len(s)
    /\ k > i + 4
    /\ Tok(s, k) = " "
    /\ Tok(s, k + 1) \in D4Toks
    /\ Tok(s, k + 2) = "-"
    /\ Tok(s, k + 3) \in D2Toks
    /\ Tok(s, k + 4) = "-"
    /\ Tok(s, k + 5) \in D2Toks
    /\ Tok(s, k + 6) = " "
    /\ Tok(s, k + 7) \in TimeToks
    /\ Tok(s, k + 8) = SEP

MatchStarts(s) == {i \in 1..Len(s) : HeaderAt(s, i)}

\* len(regex.FindStringSubmatch(line)) == 3
IsHeaderLine(line) == MatchStarts(line) # {}


(***************************************************************************)
(* Input lines and files                                                   *)
(***************************************************************************)
Header(pid, tid, name, mm, time, msg) ==
    <<pid, ":", tid, "::">> \o name
        \o <<" ", "2023", "-", mm, "-", "01", " ", time, SEP>> \o msg

H1a == Header("1", "10", <<"main">>, "01", "00:00:00,000", <<"start">>)

H1b == Header("1", "10", <<"main">>, "01", "00:00:01,000", <<"end">>)

H1c == Header("1", "11", <<"w", "-", "1">>, "01", "00:00:01,500", <<"hello">>)

H2 == Header("2", "20", <<"worker">>, "01", "00:00:02,500", <<"hello">>)

\* matches the pattern, but month 13 is no date
HBadTime == Header("1", "10", <<"main">>, "13", "00:00:01,000", <<"end">>)

Cont1 == <<"cont1">>

\* a line that is no header and holds " - "
Junk == <<"foo", SEP, "bar">>

LineSet == {H1a, H1b, H2, HBadTime, Cont1, Junk}

RECURSIVE SeqsUpTo(_, _)
SeqsUpTo(S, n) ==
    IF n = 0 THEN {<<>>}
    ELSE LET shorter == SeqsUpTo(S, n - 1) IN
         shorter \cup {Append(q, x) : q \in {r \in shorter : Len(r) = n - 1}, x \in S}

\* a file: whether os.Open succeeds, and its lines
File(ok, lines) == [ok |-> ok, lines |-> lines]

FileA == File(TRUE, <<H1a, Cont1, H1b>>)

FileB == File(TRUE, <<H2>>)

FileX == File(FALSE, <<H2>>)

\* directories of one file with any lines, and directories of several
\* files taken from a few fixed ones
OneFileDirs == {<<File(TRUE, l)>> : l \in SeqsUpTo(LineSet, MaxLines)}

ManyFilesDirs == SeqsUpTo({FileA, FileB, FileX}, MaxFiles)

Dirs == OneFileDirs \cup ManyFilesDirs

(***************************************************************************)
(* State                                                                   *)
(***************************************************************************)
VARIABLES
    filePaths,      \* ProcessLogs: the files found by filepath.Glob
    mainPc,         \* ProcessLogs: "loop", "wait" (wg.Wait), "done"
    batchI,         \* ProcessLogs: i, index (from 0) of the batch's first file
    wg,             \* the sync.WaitGroup counter
    logLines,       \* the buffered channel: records sent, not yet received
    chClosed,       \* close(logLines) was called
    logLineMutex,   \* 0 when free, else the file whose goroutine holds it
    asmPc,          \* ProcessLogFile of file f: "idle", "start", "scan",
                    \*   "send", "sendLast", "done"
    asmPos,         \* ProcessLogFile: lines scanned so far
    logLine,        \* ProcessLogFile: the current log line of file f
    asmLine,        \* ProcessLogFile: the line just scanned, while sending
    sent,           \* history: the records file f's goroutine has sent
    pubPc,          \* PublishToKafka of batch b: "idle", "range", "produce", "done"
    pubLogLine,     \* PublishToKafka: the record received from the channel
    topics,         \* the broker: the names of its topics, in order of creation
    mcPc,           \* MaybeCreateKafkaTopic in producer process p: "idle",
                    \*   "check" (before topicExists), "create", "created"
    mcRet,          \* MaybeCreateKafkaTopic: what the last call returned
    mcCalls,        \* MaybeCreateKafkaTopic: calls made by process p
    numPartitions,  \* partitions of the topic
    topic,          \* the topic: messages in the order of Produce
    faults,         \* the kinds of call that may fail in this run
    pool,           \* records another client of the topic may publish
    subMain,        \* log-subscriber main: "start", "cleaned", "waiting",
                    \*   "cancelled", "exited", "panic", "fatal"
    ctxDone,        \* cancel() was called
    sanitized,      \* the sanitized directory: file name -> content
    fwPc,           \* FileWorker.Start: "idle", "subscribe", "select", "read",
                    \*   "process", "draining", "stopped"; "failed" when
                    \*   SubscribeTopics returned an error
    fwMsg,          \* FileWorker: the message ReadMessage returned
    fwOff,          \* FileWorker's consumer group: offset in each partition
    fwRecv,         \* history: the messages the FileWorker received
    logFiles,       \* FileWorker: the process ids with a cached descriptor
    opens,          \* history: the process ids of successful os.OpenFile calls
    closes,         \* history: the process ids whose descriptor was closed
    swPc,           \* StatsWorker.Start: as fwPc
    swMsg,          \* StatsWorker: the message ReadMessage returned
    swOff,          \* StatsWorker's consumer group: offset in each partition
    swRecv,         \* history: the messages the StatsWorker received
    swDone,         \* history: the records processLogLine returned from, each
                    \*   with whether the store accepted calls at that time
    rows,           \* the log_lines table
    swDb,           \* StatsWorker: worker.db, "none", "open" (pg.Connect) or
                    \*   "closed"
    apiResp         \* api-server: the response of the last query

prodVars == <<filePaths, mainPc, batchI, wg, logLines, chClosed, logLineMutex,
              asmPc, asmPos, logLine, asmLine, sent, pubPc, pubLogLine>>

adminVars == <<topics, mcPc, mcRet, mcCalls>>

\* the store's clients: the connection of the StatsWorker, the api-server
storeVars == <<swDb, apiResp>>

cfgVars == <<numPartitions, faults, pool, adminVars, storeVars>>

fwVars == <<fwPc, fwMsg, fwOff, fwRecv, logFiles, opens, closes, sanitized>>

swVars == <<swPc, swMsg, swOff, swRecv, swDone, rows>>

subVars == <<subMain, ctxDone, fwVars, swVars>>

vars == <<prodVars, topic, cfgVars, subVars>>

NFiles == Len(filePaths)

FileIds == 1..NFiles

\* number of iterations of the batch loop (log_processor.go:71)
NBatches == (NFiles + maxFilesPerBatch - 1) \div maxFilesPerBatch

BatchIds == 1..NBatches

Min(a, b) == IF a < b THEN a ELSE b

\* the batch (from 1) that file f belongs to
BatchOf(f) == ((f - 1) \div maxFilesPerBatch) + 1

(***************************************************************************)
(* The Kafka topic                                                         *)
(***************************************************************************)
TokCode(t) ==
    CASE t \in {"1", "10", "main", " ", "00:00:00,000", "foo"} -> 1
      [] t \in {"2", "11", "worker", ":", "00:00:01,000", "bar"} -> 2
      [] t \in {"20", "w", "::", "00:00:01,500", "cont1"} -> 3
      [] t \in {"-", "00:00:02,500", "01", NL} -> 5
      [] OTHER -> 7

RECURSIVE KeyHash(_)
KeyHash(key) == IF key = <<>> THEN 0 ELSE (TokCode(Head(key)) + 3 * KeyHash(Tail(key))) % 64

PartitionerAny(key, n) == 0..(n - 1)

PartitionerByArrival(key, n) == {Len(topic) % n}

\* The partitions a message with this key may be put in with
\* kafka.PartitionAny: the hash of the key modulo the number of partitions.
Partitioner(key, n) == {KeyHash(key) % n}

Message(key, value, p) == [key |-> key, value |-> value, partition |-> p]

\* the kinds of call that may fail
FaultKinds ==
    {"produce", "remove", "consumer", "subscribe", "read", "open", "write", "db", "admin"}

\* the results of a call of a kind: TRUE (success), and FALSE (an error)
\* when calls of this kind may fail in this run
Outcomes(kind) == IF kind \in faults THEN BOOLEAN ELSE {TRUE}

\* a call that never returns: WriteString on a file system that hangs,
\* Insert on a store that hangs
HangKinds == {"hangWrite", "hangDb"}

Hangs(kind) == kind \in faults

\* producer.Produce: the message is appended to its partition
Produce(t, key, value, p) == Append(t, Message(key, value, p))

(***************************************************************************)
(* MaybeCreateKafkaTopic (messageq: part_003:23-56, 112-147), called by    *)
(* main of each log-processor process                                      *)
(***************************************************************************)
\* conf.GetString(config.KTopic)
TopicName == "logs"

\* the log-processor processes
Producers == 1..MaxProducers

\* topicExists: the name is among the topics of the metadata
TopicExists(ts, name) == \E i \in 1..Len(ts) : ts[i] = name

\* the broker's CreateTopics: a topic is created unless one of that name
\* exists, in which case the TopicResult carries the error
BrokerCreate(ts, name) == IF TopicExists(ts, name) THEN ts ELSE Append(ts, name)

CreateErrorFromResult(reqOk, existed) ==
    IF ~reqOk THEN "requestError" ELSE IF existed THEN "topicExistsError" ELSE "nil"

\* createKafkaTopic: _, err := adminClient.CreateTopics(...) and err is
\* returned; the TopicResults are dropped
CreateError(reqOk, existed) == IF reqOk THEN "nil" ELSE "requestError"

\* MaybeCreateKafkaTopic is called: NewAdminClient
McCall(p) ==
    /\ mcPc[p] = "idle"
    /\ mcCalls[p] < MaxCalls
    /\ mcCalls' = [mcCalls EXCEPT ![p] = @ + 1]
    /\ \E ok \in Outcomes("admin") :
          IF ok THEN /\ mcPc' = [mcPc EXCEPT ![p] = "check"]
                     /\ mcRet' = [mcRet EXCEPT ![p] = "none"]
                ELSE /\ mcPc' = mcPc
                     /\ mcRet' = [mcRet EXCEPT ![p] = "requestError"]
    /\ UNCHANGED <<prodVars, topic, numPartitions, faults, pool, topics, storeVars, subVars>>

\* exists, err := topicExists(topic, adminClient): an error is returned;
\* when the topic exists the call returns nil
McTopicExists(p) ==
    /\ mcPc[p] = "check"
    /\ \E ok \in Outcomes("admin") :
          IF ~ok
             THEN /\ mcPc' = [mcPc EXCEPT ![p] = "idle"]
                  /\ mcRet' = [mcRet EXCEPT ![p] = "requestError"]
             ELSE IF TopicExists(topics, TopicName)
                     THEN /\ mcPc' = [mcPc EXCEPT ![p] = "idle"]
                          /\ mcRet' = [mcRet EXCEPT ![p] = "nil"]
                     ELSE /\ mcPc' = [mcPc EXCEPT ![p] = "create"]
                          /\ mcRet' = mcRet
    /\ UNCHANGED <<prodVars, topic, numPartitions, faults, pool, topics, mcCalls,
                   storeVars, subVars>>

\* err = createKafkaTopic(topic, adminClient), with NumPartitions: 1; an
\* error is returned
McCreate(p) ==
    /\ mcPc[p] = "create"
    /\ \E ok \in Outcomes("admin") :
          LET err == CreateError(ok, TopicExists(topics, TopicName)) IN
          /\ topics' = IF ok THEN BrokerCreate(topics, TopicName) ELSE topics
          /\ numPartitions' =
                IF ok /\ ~TopicExists(topics, TopicName) THEN 1 ELSE numPartitions
          /\ IF err = "nil"
                THEN /\ mcPc' = [mcPc EXCEPT ![p] = "created"]
                     /\ mcRet' = mcRet
                ELSE /\ mcPc' = [mcPc EXCEPT ![p] = "idle"]
                     /\ mcRet' = [mcRet EXCEPT ![p] = err]
    /\ UNCHANGED <<prodVars, topic, faults, pool, mcCalls, storeVars, subVars>>

\* "created successfully" is logged; return nil
McReturn(p) ==
    /\ mcPc[p] = "created"
    /\ mcPc' = [mcPc EXCEPT ![p] = "idle"]
    /\ mcRet' = [mcRet EXCEPT ![p] = "nil"]
    /\ UNCHANGED <<prodVars, topic, numPartitions, faults, pool, topics, mcCalls,
                   storeVars, subVars>>

MaybeCreateKafkaTopic ==
    \E p \in Producers : McCall(p) \/ McTopicExists(p) \/ McCreate(p) \/ McReturn(p)

(***************************************************************************)
(* ProcessLogs (log_processor.go:47-95)                                    *)
(***************************************************************************)
BatchFilesToEnd(i) == (i + 1)..NFiles

\* the files of the batch that starts at index i (filePaths[i:end])
BatchFiles(i) == (i + 1)..Min(i + maxFilesPerBatch, NFiles)

LoopCondInclusive(i, n) == i <= n

\* the condition of the batch loop: i < len(filePaths)
LoopCond(i, n) == i < n

GoPublishToKafkaOnce(pubs, b) ==
    IF \E c \in DOMAIN pubs : pubs[c] # "idle" THEN pubs ELSE [pubs EXCEPT ![b] = "range"]

\* go messageq.PublishToKafka(logLines, ...): a new goroutine, the b-th,
\* starts at the range loop
GoPublishToKafka(pubs, b) == [pubs EXCEPT ![b] = "range"]

\* one iteration of the batch loop up to wg.Wait: a goroutine per file of
\* the batch, and one PublishToKafka goroutine
StartBatch ==
    /\ mainPc = "loop"
    /\ LoopCond(batchI, NFiles)
    /\ wg' = wg + Cardinality(BatchFiles(batchI))
    /\ asmPc' = [f \in FileIds |-> IF f \in BatchFiles(batchI) THEN "start" ELSE asmPc[f]]
    /\ pubPc' = GoPublishToKafka(pubPc, BatchOf(batchI + 1))
    /\ mainPc' = "wait"
    /\ UNCHANGED <<filePaths, batchI, logLines, chClosed, logLineMutex, asmPos,
                   logLine, asmLine, sent, pubLogLine, topic, cfgVars, subVars>>

WaitReturnsAtOnce(n) == TRUE

\* wg.Wait returns when the counter is zero
WaitReturns(n) == n = 0

NextBatchByOne(i) == i + 1

\* i += maxFilesPerBatch
NextBatch(i) == i + maxFilesPerBatch

\* wg.Wait returns, and the loop goes on with i += maxFilesPerBatch
WaitBatch ==
    /\ mainPc = "wait"
    /\ WaitReturns(wg)
    /\ batchI' = NextBatch(batchI)
    /\ mainPc' = "loop"
    /\ UNCHANGED <<filePaths, wg, logLines, chClosed, logLineMutex, asmPc, asmPos,
                   logLine, asmLine, sent, pubPc, pubLogLine, topic, cfgVars, subVars>>

\* after the loop: close(logLines), and ProcessLogs returns
CloseLogLines ==
    /\ mainPc = "loop"
    /\ ~LoopCond(batchI, NFiles)
    /\ chClosed' = TRUE
    /\ mainPc' = "done"
    /\ UNCHANGED <<filePaths, batchI, wg, logLines, logLineMutex, asmPc, asmPos,
                   logLine, asmLine, sent, pubPc, pubLogLine, topic, cfgVars, subVars>>

(***************************************************************************)
(* ProcessLogFile (log_processor.go:100-152)                               *)
(***************************************************************************)
OpenedAlways(file) == TRUE

\* file, err := os.Open(filePath): err == nil
Opened(file) == file.ok

\* os.Open: on failure the goroutine returns (defer wg.Done)
OpenFile(f) ==
    /\ asmPc[f] = "start"
    /\ IF Opened(filePaths[f])
          THEN /\ asmPc' = [asmPc EXCEPT ![f] = "scan"]
               /\ wg' = wg
          ELSE /\ asmPc' = [asmPc EXCEPT ![f] = "done"]
               /\ wg' = wg - 1
    /\ UNCHANGED <<filePaths, mainPc, batchI, logLines, chClosed, logLineMutex,
                   asmPos, logLine, asmLine, sent, pubPc, pubLogLine, topic, cfgVars, subVars>>

CanSendAlways(ch) == TRUE

\* the channel accepts a send: it has room
CanSend(ch) == Len(ch) < maxParallelLines

AppendLineNoNewline(cur, line) == cur \o line

\* logLine += "\n" + line
AppendLine(cur, line) == cur \o <<NL>> \o line

LockPerGoroutine(mutex) == TRUE

\* logLineMutex.Lock() returns when no goroutine holds the mutex
Lock(mutex) == mutex = 0

\* scanner.Scan gives a line.  A header line with a record in progress
\* takes the mutex and goes to send the record; any other line changes
\* logLine under the mutex.
ScanLine(f) ==
    /\ asmPc[f] = "scan"
    /\ asmPos[f] < Len(filePaths[f].lines)
    /\ Lock(logLineMutex)
    /\ LET line == filePaths[f].lines[asmPos[f] + 1] IN
       /\ asmPos' = [asmPos EXCEPT ![f] = @ + 1]
       /\ IF IsHeaderLine(line)
             THEN IF logLine[f] # <<>>
                     THEN /\ logLineMutex' = f
                          /\ asmPc' = [asmPc EXCEPT ![f] = "send"]
                          /\ asmLine' = [asmLine EXCEPT ![f] = line]
                          /\ logLine' = logLine
                     ELSE /\ logLine' = [logLine EXCEPT ![f] = line]
                          /\ UNCHANGED <<logLineMutex, asmPc, asmLine>>
             ELSE /\ logLine' = [logLine EXCEPT ![f] = AppendLine(@, line)]
                  /\ UNCHANGED <<logLineMutex, asmPc, asmLine>>
    /\ UNCHANGED <<filePaths, mainPc, batchI, wg, logLines, chClosed, sent,
                   pubPc, pubLogLine, topic, cfgVars, subVars>>

\* logLines <- logLine, holding the mutex; then logLine = line and unlock
SendLine(f) ==
    /\ asmPc[f] = "send"
    /\ ~chClosed
    /\ CanSend(logLines)
    /\ logLines' = Append(logLines, logLine[f])
    /\ sent' = [sent EXCEPT ![f] = Append(@, logLine[f])]
    /\ logLine' = [logLine EXCEPT ![f] = asmLine[f]]
    /\ asmLine' = [asmLine EXCEPT ![f] = <<>>]
    /\ logLineMutex' = 0
    /\ asmPc' = [asmPc EXCEPT ![f] = "scan"]
    /\ UNCHANGED <<filePaths, mainPc, batchI, wg, chClosed, asmPos, pubPc,
                   pubLogLine, topic, cfgVars, subVars>>

\* end of file: the last record, if any, is to be sent under the mutex
EndOfFile(f) ==
    /\ asmPc[f] = "scan"
    /\ asmPos[f] = Len(filePaths[f].lines)
    /\ Lock(logLineMutex)
    /\ IF logLine[f] # <<>>
          THEN /\ logLineMutex' = f
               /\ asmPc' = [asmPc EXCEPT ![f] = "sendLast"]
               /\ wg' = wg
          ELSE /\ logLineMutex' = 0
               /\ asmPc' = [asmPc EXCEPT ![f] = "done"]
               /\ wg' = wg - 1
    /\ UNCHANGED <<filePaths, mainPc, batchI, logLines, chClosed, asmPos,
                   logLine, asmLine, sent, pubPc, pubLogLine, topic, cfgVars, subVars>>

\* the last send, the unlock and the deferred wg.Done
SendLastLine(f) ==
    /\ asmPc[f] = "sendLast"
    /\ ~chClosed
    /\ CanSend(logLines)
    /\ logLines' = Append(logLines, logLine[f])
    /\ sent' = [sent EXCEPT ![f] = Append(@, logLine[f])]
    /\ logLineMutex' = 0
    /\ asmPc' = [asmPc EXCEPT ![f] = "done"]
    /\ wg' = wg - 1
    /\ UNCHANGED <<filePaths, mainPc, batchI, chClosed, asmPos, logLine,
                   asmLine, pubPc, pubLogLine, topic, cfgVars, subVars>>

(***************************************************************************)
(* PublishToKafka (messageq: part_003:79-108)                              *)
(***************************************************************************)
\* for logLine := range logLines: one record is received
RangeRecv(b) ==
    /\ pubPc[b] = "range"
    /\ logLines # <<>>
    /\ pubLogLine' = [pubLogLine EXCEPT ![b] = Head(logLines)]
    /\ logLines' = Tail(logLines)
    /\ pubPc' = [pubPc EXCEPT ![b] = "produce"]
    /\ UNCHANGED <<filePaths, mainPc, batchI, wg, chClosed, logLineMutex, asmPc,
                   asmPos, logLine, asmLine, sent, topic, cfgVars, subVars>>

RangeEndsOnClose(ch, closed) == closed

\* range on a channel ends when the channel is closed and nothing is left
\* in it
RangeEnds(ch, closed) == ch = <<>> /\ closed

\* the range loop ends when the channel is closed and empty
RangeEnd(b) ==
    /\ pubPc[b] = "range"
    /\ RangeEnds(logLines, chClosed)
    /\ pubPc' = [pubPc EXCEPT ![b] = "done"]
    /\ UNCHANGED <<filePaths, mainPc, batchI, wg, logLines, chClosed,
                   logLineMutex, asmPc, asmPos, logLine, asmLine, sent,
                   pubLogLine, topic, cfgVars, subVars>>

\* messageKey := parts[0]
MessageKey(rec) == Split(rec, SEP)[1]

\* len(parts) < 2: "Invalid log line"
InvalidLogLine(rec) == Len(Split(rec, SEP)) < 2

\* the body of the range loop: an invalid line is skipped; else the record
\* is produced under its key (Produce may fail, which is logged)
PublishLine(b) ==
    /\ pubPc[b] = "produce"
    /\ LET rec == pubLogLine[b] IN
       IF InvalidLogLine(rec)
          THEN topic' = topic
          ELSE \E ok \in Outcomes("produce") :
               \E p \in Partitioner(MessageKey(rec), numPartitions) :
                   topic' = IF ok THEN Produce(topic, MessageKey(rec), rec, p)
                                  ELSE topic
    /\ pubLogLine' = [pubLogLine EXCEPT ![b] = <<>>]
    /\ pubPc' = [pubPc EXCEPT ![b] = "range"]
    /\ UNCHANGED <<filePaths, mainPc, batchI, wg, logLines, chClosed,
                   logLineMutex, asmPc, asmPos, logLine, asmLine, sent,
                   cfgVars, subVars>>

(***************************************************************************)
(* Specification of the log-processor                                      *)
(***************************************************************************)
InitProducer ==
    /\ filePaths \in Dirs
    /\ mainPc = "loop"
    /\ batchI = 0
    /\ wg = 0
    /\ logLines = <<>>
    /\ chClosed = FALSE
    /\ logLineMutex = 0
    /\ asmPc = [f \in FileIds |-> "idle"]
    /\ asmPos = [f \in FileIds |-> 0]
    /\ logLine = [f \in FileIds |-> <<>>]
    /\ asmLine = [f \in FileIds |-> <<>>]
    /\ sent = [f \in FileIds |-> <<>>]
    /\ pubPc = [b \in BatchIds |-> "idle"]
    /\ pubLogLine = [b \in BatchIds |-> <<>>]

(***************************************************************************)
(* Records on the topic                                                    *)
(***************************************************************************)
\* the message PublishToKafka makes of a record
MsgOf(rec) == [key |-> MessageKey(rec), value |-> rec]

RecA1 == H1a \o <<NL>> \o Cont1

RecC == H1c \o <<NL>> \o Junk

\* what ProcessLogFile sends for a file that starts with the line Junk
RecJunk == <<NL>> \o Junk

\* messages as the log-processor publishes them
ProducerPool == {MsgOf(r) : r \in {RecA1, H1b, H2, RecC, HBadTime, RecJunk}}

\* fewer of them
SmallPool == {MsgOf(r) : r \in {RecA1, H1b, RecC}}

\* messages keyed processId-threadId, as the package comments describe the
\* key, and one whose key has no hyphen
KeyedPool ==
    { [key |-> <<"1", "-", "10">>, value |-> H1a],
      [key |-> <<"1", "-", "10">>, value |-> H1b],
      [key |-> <<"2", "-", "20">>, value |-> H2],
      [key |-> <<"7">>, value |-> H2] }

Partitions == 0..(numPartitions - 1)

\* the messages of partition p, in offset order
PartitionLog(t, p) == SelectSeq(t, LAMBDA m : m.partition = p)

\* consumer.ReadMessage has a message to return from partition p
HasNext(t, off, p) == off[p] < Len(PartitionLog(t, p))

NextMessage(t, off, p) == PartitionLog(t, p)[off[p] + 1]

\* another client of the topic (a run of the log-processor) produces a
\* message of the pool
PublishRecord ==
    /\ Len(topic) < MaxMsgs
    /\ \E m \in pool :
       \E p \in Partitioner(m.key, numPartitions) :
           topic' = Produce(topic, m.key, m.value, p)
    /\ UNCHANGED <<prodVars, cfgVars, subVars>>

(***************************************************************************)
(* log-subscriber main (logsubscriber/cmd/main.go:38-100)                  *)
(***************************************************************************)
EmptyDir == <<>>

Alive == subMain \in {"waiting", "cancelled"}

RemoveAllKeeps(dir) == dir

\* os.RemoveAll(dirPath): the directory and its files are gone
RemoveAll(dir) == EmptyDir

\* mayBeDeleteOldSanitizedDir: os.RemoveAll; an error is fatal
DeleteOldSanitizedDir ==
    /\ subMain = "start"
    /\ \E ok \in Outcomes("remove") :
          IF ok THEN /\ sanitized' = RemoveAll(sanitized)
                     /\ subMain' = "cleaned"
                ELSE /\ sanitized' = sanitized
                     /\ subMain' = "fatal"
    /\ UNCHANGED <<prodVars, topic, cfgVars, ctxDone, fwPc, fwMsg, fwOff, fwRecv,
                   logFiles, opens, closes, swVars>>

GoAfterFileWorker(pc) == pc

\* go func() { statsWorker.Start(ctx) }(): the worker runs in a goroutine
\* of its own, from the start of Start
Go(pc) == "subscribe"

\* the consumers are created and both workers are started as goroutines;
\* main then waits for a signal
StartWorkers ==
    /\ subMain = "cleaned"
    /\ \E ok \in Outcomes("consumer") :
          IF ok THEN /\ subMain' = "waiting"
                     /\ fwPc' = "subscribe"
                     /\ swPc' = Go(swPc)
                ELSE /\ subMain' = "fatal"
                     /\ UNCHANGED <<fwPc, swPc>>
    /\ UNCHANGED <<prodVars, topic, cfgVars, ctxDone, fwMsg, fwOff, fwRecv,
                   logFiles, opens, closes, sanitized, swMsg, swOff, swRecv,
                   swDone, rows>>

\* a termination signal arrives: cancel()
Cancel ==
    /\ subMain = "waiting"
    /\ ctxDone' = TRUE
    /\ subMain' = "cancelled"
    /\ UNCHANGED <<prodVars, topic, cfgVars, fwVars, swVars>>

\* main returns after cancel(): the process ends
Exit ==
    /\ subMain = "cancelled"
    /\ subMain' = "exited"
    /\ UNCHANGED <<prodVars, topic, cfgVars, ctxDone, fwVars, swVars>>

(***************************************************************************)
(* FileWorker.Start (workers: part_000:55-132)                             *)
(***************************************************************************)
FatalfOnlyTask(main) == main

\* log.Fatalf: the message is logged and os.Exit(1) ends the process
Fatalf(main) == "fatal"

\* SubscribeTopics; an error is log.Fatalf
FwSubscribe ==
    /\ Alive /\ fwPc = "subscribe"
    /\ \E ok \in Outcomes("subscribe") :
          IF ok THEN /\ fwPc' = "select"
                     /\ subMain' = subMain
                ELSE /\ fwPc' = "failed"
                     /\ subMain' = Fatalf(subMain)
    /\ UNCHANGED <<prodVars, topic, cfgVars, ctxDone, fwMsg, fwOff, fwRecv,
                   logFiles, opens, closes, sanitized, swVars>>

\* select: case <-ctx.Done() when cancelled, else default
FwSelect ==
    /\ Alive /\ fwPc = "select"
    /\ fwPc' = IF ctxDone THEN "draining" ELSE "read"
    /\ UNCHANGED <<prodVars, topic, cfgVars, subMain, ctxDone, fwMsg, fwOff,
                   fwRecv, logFiles, opens, closes, sanitized, swVars>>

ReceivedChecksDone(done) == IF done THEN "select" ELSE "process"

\* after ReadMessage has returned a message the loop body goes on with it;
\* ctx is not looked at
Received(done) == "process"

\* ReadMessage(-1) returns the next message of a partition
FwRead ==
    /\ Alive /\ fwPc = "read"
    /\ \E p \in Partitions :
          /\ HasNext(topic, fwOff, p)
          /\ fwMsg' = NextMessage(topic, fwOff, p)
          /\ fwOff' = [fwOff EXCEPT ![p] = @ + 1]
          /\ fwRecv' = Append(fwRecv, NextMessage(topic, fwOff, p))
    /\ fwPc' = Received(ctxDone)
    /\ UNCHANGED <<prodVars, topic, cfgVars, subMain, ctxDone, logFiles, opens,
                   closes, sanitized, swVars>>

\* ReadMessage(-1) returns an error: continue
FwReadError ==
    /\ Alive /\ fwPc = "read"
    /\ "read" \in faults
    /\ fwPc' = "select"
    /\ UNCHANGED <<prodVars, topic, cfgVars, subMain, ctxDone, fwMsg, fwOff,
                   fwRecv, logFiles, opens, closes, sanitized, swVars>>

\* parts := strings.Split(key, "-")
KeyParts(key) == Split(Chars(key), "-")

InvalidKeyLenient(key) == Len(KeyParts(key)) < 1

\* len(parts) < 2: "Invalid key format"
InvalidKey(key) == Len(KeyParts(key)) < 2

\* processID := parts[0]
ProcessID(key) == KeyParts(key)[1]

\* fileName := sanitizedDir/processID.log
FileName(processID) == processID \o <<".log">>

CachedNever(files, processID) == FALSE

\* logFile, ok := logFiles[processID]
Cached(files, processID) == processID \in files

\* one more in a count kept per key
Inc(cnt, k) ==
    [x \in DOMAIN cnt \cup {k} |->
        (IF x \in DOMAIN cnt THEN cnt[x] ELSE 0) + (IF x = k THEN 1 ELSE 0)]

Count(cnt, k) == IF k \in DOMAIN cnt THEN cnt[k] ELSE 0

\* os.OpenFile with O_APPEND|O_CREATE: the file exists afterwards
Created(dir, name) ==
    [n \in DOMAIN dir \cup {name} |-> IF n \in DOMAIN dir THEN dir[n] ELSE <<>>]

WriteStringTruncates(dir, name, logMessage) ==
    [dir EXCEPT ![name] = logMessage \o <<NL>>]

\* logFile.WriteString(logMessage + "\n")
WriteString(dir, name, logMessage) ==
    [dir EXCEPT ![name] = @ \o logMessage \o <<NL>>]

OpenFailedCaches(files, processID) == files \cup {processID}

\* os.OpenFile returns an error: it is logged and the loop continues;
\* logFiles[processID] is not assigned
OpenFailed(files, processID) == files

AfterWriteEvicts(files, processID, ok) == IF ok THEN files ELSE files \ {processID}

\* the cache after WriteString: an error is logged, and the descriptor
\* stays where it is in either case
AfterWrite(files, processID, ok) == files

\* the rest of the loop body, from the key to the write
FwProcess ==
    /\ Alive /\ fwPc = "process"
    /\ ~Hangs("hangWrite")
    /\ LET key == fwMsg.key
           processID == ProcessID(key)
           name == FileName(processID)
       IN
       IF InvalidKey(key)
          THEN UNCHANGED <<logFiles, opens, sanitized>>
          ELSE \E openOk \in Outcomes("open"), writeOk \in Outcomes("write") :
               IF Cached(logFiles, processID)
                  THEN /\ logFiles' = AfterWrite(logFiles, processID, writeOk)
                       /\ opens' = opens
                       /\ sanitized' = IF writeOk
                                          THEN WriteString(sanitized, name, fwMsg.value)
                                          ELSE sanitized
                  ELSE IF ~openOk
                          THEN /\ logFiles' = OpenFailed(logFiles, processID)
                               /\ UNCHANGED <<opens, sanitized>>
                          ELSE /\ logFiles' = AfterWrite(logFiles \cup {processID},
                                                        processID, writeOk)
                               /\ opens' = Inc(opens, processID)
                               /\ sanitized' =
                                    IF writeOk
                                       THEN WriteString(Created(sanitized, name), name,
                                                        fwMsg.value)
                                       ELSE Created(sanitized, name)
    /\ fwPc' = "select"
    /\ UNCHANGED <<prodVars, topic, cfgVars, subMain, ctxDone, fwMsg, fwOff,
                   fwRecv, closes, swVars>>

CloseLogFilesSkips(cl, files) == cl

\* closeLogFiles: logFile.Close() for every descriptor of the cache
CloseLogFiles(cl, files) ==
    [k \in DOMAIN cl \cup files |-> Count(cl, k) + (IF k \in files THEN 1 ELSE 0)]

\* case <-ctx.Done(): closeLogFiles, then return nil
FwClose ==
    /\ Alive /\ fwPc = "draining"
    /\ closes' = CloseLogFiles(closes, logFiles)
    /\ fwPc' = "stopped"
    /\ UNCHANGED <<prodVars, topic, cfgVars, subMain, ctxDone, fwMsg, fwOff,
                   fwRecv, logFiles, opens, sanitized, swVars>>

(***************************************************************************)
(* StatsWorker (logsubscriber/cmd/main.go:207-299)                         *)
(***************************************************************************)
\* SubscribeTopics; an error is log.Fatalf; then worker.db = db.NewDB(conf)
SwSubscribe ==
    /\ Alive /\ swPc = "subscribe"
    /\ \E ok \in Outcomes("subscribe") :
          IF ok THEN /\ swPc' = "select"
                     /\ subMain' = subMain
                     /\ swDb' = "open"
                ELSE /\ swPc' = "failed"
                     /\ subMain' = Fatalf(subMain)
                     /\ swDb' = swDb
    /\ UNCHANGED <<prodVars, topic, numPartitions, faults, pool, adminVars, apiResp,
                   ctxDone, fwVars, swMsg, swOff, swRecv, swDone, rows>>

\* select: return nil when cancelled, else default
SwSelect ==
    /\ Alive /\ swPc = "select"
    /\ swPc' = IF ctxDone THEN "stopped" ELSE "read"
    /\ UNCHANGED <<prodVars, topic, cfgVars, subMain, ctxDone, fwVars, swMsg,
                   swOff, swRecv, swDone, rows>>

SwRead ==
    /\ Alive /\ swPc = "read"
    /\ \E p \in Partitions :
          /\ HasNext(topic, swOff, p)
          /\ swMsg' = NextMessage(topic, swOff, p)
          /\ swOff' = [swOff EXCEPT ![p] = @ + 1]
          /\ swRecv' = Append(swRecv, NextMessage(topic, swOff, p))
    /\ swPc' = Received(ctxDone)
    /\ UNCHANGED <<prodVars, topic, cfgVars, subMain, ctxDone, fwVars, swDone, rows>>

SwReadError ==
    /\ Alive /\ swPc = "read"
    /\ "read" \in faults
    /\ swPc' = "select"
    /\ UNCHANGED <<prodVars, topic, cfgVars, subMain, ctxDone, fwVars, swMsg,
                   swOff, swRecv, swDone, rows>>

\* matches := regex.FindStringSubmatch(logLine): the leftmost match, or nil
Matches(rec) == MatchStarts(rec) # {}

Leftmost(rec) == CHOOSE i \in MatchStarts(rec) : \A j \in MatchStarts(rec) : i <= j

\* matches[1..5]
Submatch(rec) ==
    LET i == Leftmost(rec)
        k == NameEnd(rec, i + 4)
    IN [processID |-> rec[i],
        threadID |-> rec[i + 2],
        threadName |-> SubSeq(rec, i + 4, k - 1),
        loggedTime |-> SubSeq(rec, k + 1, k + 7),
        message |-> SubSeq(rec, k + 9, Len(rec))]

IsSpace(t) == t \in {" ", NL}

RECURSIVE TrimLeft(_)
TrimLeft(s) == IF s # <<>> /\ IsSpace(Head(s)) THEN TrimLeft(Tail(s)) ELSE s

RECURSIVE TrimRight(_)
TrimRight(s) ==
    IF s # <<>> /\ IsSpace(s[Len(s)]) THEN TrimRight(SubSeq(s, 1, Len(s) - 1)) ELSE s

\* strings.TrimSpace
TrimSpace(s) == TrimRight(TrimLeft(s))

\* the time of day of a time token: seconds and milliseconds
TimeOfDay(t) ==
    CASE t = "00:00:00,000" -> [sec |-> 0, ms |-> 0]
      [] t = "00:00:01,000" -> [sec |-> 1, ms |-> 0]
      [] t = "00:00:01,500" -> [sec |-> 1, ms |-> 500]
      [] t = "00:00:02,500" -> [sec |-> 2, ms |-> 500]

DayOfMonth(d) == IF d = "13" THEN 13 ELSE 1

ParseNeverFails(loggedTime) == FALSE

\* time.Parse("2006-01-02 15:04:05.999", loggedTime): the error
\* (month out of range) ...
ParseFails(loggedTime) == loggedTime[3] \notin {"01"}

\* Unix time of 2023-01-01 00:00:00 UTC, in seconds
Epoch2023 == 1672531200

\* ... and the time (UTC, as the layout has no zone), in milliseconds
\* since 2023-01-01 00:00:00
ParseTime(loggedTime) ==
    LET tod == TimeOfDay(loggedTime[7]) IN
    ((DayOfMonth(loggedTime[5]) - 1) * 86400 + tod.sec) * 1000 + tod.ms

UnixRounded(t) == Epoch2023 + (t + 500) \div 1000

\* timestamp.Unix(): the seconds since 1970-01-01 00:00:00 UTC, the
\* fraction of a second dropped
Unix(t) == Epoch2023 + t \div 1000

\* logLineObj
LogLineObj(m) ==
    [process_id |-> m.processID,
     thread_id |-> m.threadID,
     timestamp |-> ParseTime(m.loggedTime),
     timestamp_seconds |-> Unix(ParseTime(m.loggedTime)),
     log_message |-> TrimSpace(m.message)]

SameKeyAndMessage(r, q) == r = q

\* PRIMARY KEY (process_id, thread_id, timestamp, timestamp_seconds)
SameKey(r, q) ==
    /\ r.process_id = q.process_id
    /\ r.thread_id = q.thread_id
    /\ r.timestamp = q.timestamp
    /\ r.timestamp_seconds = q.timestamp_seconds

InsertRetried(table, row, dbOk) ==
    IF \A i \in 1..Len(table) : ~SameKey(table[i], row) THEN Append(table, row) ELSE table

\* db.Model(logLineObj).Insert(): fails when the store does, and on a
\* duplicate key
Insert(table, row, dbOk) ==
    IF dbOk /\ \A i \in 1..Len(table) : ~SameKey(table[i], row)
       THEN Append(table, row)
       ELSE table

\* processLogLine on a record the pattern matches
ProcessLogLine(table, rec, dbOk) ==
    LET m == Submatch(rec) IN
    IF ParseFails(m.loggedTime) THEN table
    ELSE Insert(table, LogLineObj(m), dbOk)

\* processLogLine(string(msg.Value)); matches[1] of a nil slice panics
SwProcess ==
    /\ Alive /\ swPc = "process"
    /\ ~Hangs("hangDb")
    /\ IF ~Matches(swMsg.value)
          THEN /\ subMain' = "panic"
               /\ UNCHANGED <<swPc, swDone, rows>>
          ELSE /\ \E dbOk \in Outcomes("db") :
                     /\ rows' = ProcessLogLine(rows, swMsg.value, dbOk)
                     /\ swDone' = Append(swDone, [value |-> swMsg.value, dbOk |-> dbOk])
               /\ swPc' = "select"
               /\ subMain' = subMain
    /\ UNCHANGED <<prodVars, topic, cfgVars, ctxDone, fwVars, swMsg, swOff, swRecv>>

(***************************************************************************)
(* StatsService (apiserver/internal/services/stats_service.go:49-94)       *)
(***************************************************************************)
\* a VARCHAR id scanned into an int of the response
Atoi(t) ==
    CASE t = "1" -> 1
      [] t = "2" -> 2
      [] t = "10" -> 10
      [] t = "11" -> 11
      [] t = "20" -> 20
      [] t = "01" -> 1
      [] t = "13" -> 13
      [] t = "2023" -> 2023

\* ARRAY_AGG(DISTINCT col) scanned into []int: one element for each
\* distinct value, in ascending order (for the ids here the order of the
\* text is the order of the numbers); no element when no row is selected
RECURSIVE ArrayAgg(_)
ArrayAgg(S) ==
    IF S = {} THEN <<>>
    ELSE LET t == CHOOSE x \in S : \A y \in S : Atoi(x) <= Atoi(y)
         IN <<Atoi(t)>> \o ArrayAgg(S \ {t})

WhereHalfOpen(ts, start, end) == ts >= start /\ ts < end

\* Where("timestamp_seconds >= ?", start).Where("timestamp_seconds <= ?", end)
Where(ts, start, end) == ts >= start /\ ts <= end

\* GetBasicStats: COUNT(DISTINCT thread_id), ARRAY_AGG(DISTINCT thread_id)
\* and ARRAY_AGG(DISTINCT process_id) over the rows of the range
GetBasicStats(table, start, end) ==
    LET sel == {i \in 1..Len(table) : Where(table[i].timestamp_seconds, start, end)}
        tids == {table[i].thread_id : i \in sel}
        pids == {table[i].process_id : i \in sel}
    IN [active_threads_count |-> Cardinality(tids),
        active_thread_ids |-> ArrayAgg(tids),
        active_process_ids |-> ArrayAgg(pids)]

\* COUNT(DISTINCT thread_id) AS concurrent_threads, timestamp_seconds
\* ... GROUP BY timestamp_seconds
GroupBySeconds(table) ==
    {[timestamp_seconds |-> s,
      concurrent_threads |->
          Cardinality({table[i].thread_id :
                          i \in {j \in 1..Len(table) : table[j].timestamp_seconds = s}})] :
        s \in {table[i].timestamp_seconds : i \in 1..Len(table)}}

OrderAscLimit1(groups) ==
    {g \in groups : \A h \in groups : g.concurrent_threads <= h.concurrent_threads}

\* Order("concurrent_threads DESC").Limit(1): a group with the largest
\* count, any of them when several have it
OrderDescLimit1(groups) ==
    {g \in groups : \A h \in groups : g.concurrent_threads >= h.concurrent_threads}

\* GetMaxConcurrentThreads: the results Select can give; none (Select
\* returns an error) when the table has no row
GetMaxConcurrentThreads(table) == OrderDescLimit1(GroupBySeconds(table))

\* the seconds a request names
RequestSeconds == Epoch2023..(Epoch2023 + 2)

\* a request for /basicStats is served
BasicStats ==
    /\ apiResp.op = "none"
    /\ \E start, end \in RequestSeconds :
          apiResp' = [op |-> "basicStats", start |-> start, end |-> end,
                      result |-> GetBasicStats(rows, start, end)]
    /\ UNCHANGED <<prodVars, topic, numPartitions, faults, pool, adminVars, swDb,
                   subMain, ctxDone, fwVars, swPc, swMsg, swOff, swRecv, swDone, rows>>

\* a request for the max concurrent threads is served
MaxConcurrentThreads ==
    /\ apiResp.op = "none"
    /\ IF GetMaxConcurrentThreads(rows) = {}
          THEN apiResp' = [op |-> "maxConcurrentThreads", err |-> TRUE]
          ELSE \E r \in GetMaxConcurrentThreads(rows) :
                  apiResp' = [op |-> "maxConcurrentThreads", err |-> FALSE, result |-> r]
    /\ UNCHANGED <<prodVars, topic, numPartitions, faults, pool, adminVars, swDb,
                   subMain, ctxDone, fwVars, swPc, swMsg, swOff, swRecv, swDone, rows>>

(***************************************************************************)
(* Initial states                                                          *)
(***************************************************************************)
\* a sanitized directory left by an earlier run
OldDir == [n \in {<<"1", ".log">>} |-> H1a \o <<NL>>]

InitSubscriber ==
    /\ subMain = "start"
    /\ ctxDone = FALSE
    /\ sanitized \in {EmptyDir, OldDir}
    /\ fwPc = "idle"
    /\ fwMsg = <<>>
    /\ fwOff = [p \in Partitions |-> 0]
    /\ fwRecv = <<>>
    /\ logFiles = {}
    /\ opens = <<>>
    /\ closes = <<>>
    /\ swPc = "idle"
    /\ swMsg = <<>>
    /\ swOff = [p \in Partitions |-> 0]
    /\ swRecv = <<>>
    /\ swDone = <<>>
    /\ rows = <<>>
    /\ swDb = "none"
    /\ apiResp = [op |-> "none"]

\* the log-subscriber is not running
InitNoSubscriber ==
    /\ InitSubscriber
    /\ sanitized = EmptyDir

\* no MaybeCreateKafkaTopic is running
InitAdmin ==
    /\ mcPc = [p \in Producers |-> "idle"]
    /\ mcRet = [p \in Producers |-> "none"]
    /\ mcCalls = [p \in Producers |-> 0]

\* the topic exists and is empty
InitTopic ==
    /\ topics = <<TopicName>>
    /\ InitAdmin
    /\ numPartitions \in 1..MaxPartitions
    /\ topic = <<>>

(***************************************************************************)
(* Spec: the log-processor and the topic                                   *)
(***************************************************************************)
Init ==
    /\ InitTopic
    /\ faults = FaultKinds
    /\ pool = {}
    /\ InitProducer
    /\ InitNoSubscriber

ProcessLogs == StartBatch \/ WaitBatch \/ CloseLogLines

ProcessLogFile ==
    \E f \in FileIds :
        OpenFile(f) \/ ScanLine(f) \/ SendLine(f) \/ EndOfFile(f)
            \/ SendLastLine(f)

PublishToKafka == \E b \in BatchIds : RangeRecv(b) \/ RangeEnd(b) \/ PublishLine(b)

Next == ProcessLogs \/ ProcessLogFile \/ PublishToKafka

Spec == Init /\ [][Next]_vars

(***************************************************************************)
(* SpecFileWorker, SpecStatsWorker: the topic, main of the log-subscriber  *)
(* and one of its workers                                                  *)
(***************************************************************************)
\* the log-processor is not running
InitNoProducer ==
    /\ InitProducer
    /\ filePaths = <<>>

Main == DeleteOldSanitizedDir \/ StartWorkers \/ Cancel \/ Exit

FileWorker == FwSubscribe \/ FwSelect \/ FwRead \/ FwReadError \/ FwProcess \/ FwClose

StatsWorker == SwSubscribe \/ SwSelect \/ SwRead \/ SwReadError \/ SwProcess

InitFileWorker ==
    /\ InitTopic
    /\ faults = FaultKinds
    /\ pool = SmallPool \cup KeyedPool
    /\ InitNoProducer
    /\ InitSubscriber

NextFileWorker == PublishRecord \/ Main \/ FileWorker

SpecFileWorker == InitFileWorker /\ [][NextFileWorker]_vars

InitStatsWorker ==
    /\ InitTopic
    /\ faults = FaultKinds
    /\ pool = ProducerPool
    /\ InitNoProducer
    /\ InitSubscriber

NextStatsWorker == PublishRecord \/ Main \/ StatsWorker

SpecStatsWorker == InitStatsWorker /\ [][NextStatsWorker]_vars

(***************************************************************************)
(* SpecStore: the StatsWorker fills the table from a topic whose records   *)
(* share keys, and the store may fail                                      *)
(***************************************************************************)
\* records of three seconds; RecA1 and H1a are of the same process,
\* thread and time, and H1b and RecC are two threads of one second
StorePool == {MsgOf(r) : r \in {RecA1, H1a, H1b, RecC, H2, HBadTime}}

InitStore ==
    /\ InitTopic
    /\ numPartitions = 1
    /\ faults = {"db", "read"}
    /\ pool = StorePool
    /\ InitNoProducer
    /\ InitSubscriber
    /\ sanitized = EmptyDir

SpecStore == InitStore /\ [][NextStatsWorker]_vars

(***************************************************************************)
(* SpecApi: as SpecStore, and the api-server serves a request              *)
(***************************************************************************)
ApiServer == BasicStats \/ MaxConcurrentThreads

NextApi == PublishRecord \/ Main \/ StatsWorker \/ ApiServer

SpecApi == InitStore /\ [][NextApi]_vars

(***************************************************************************)
(* SpecRestart: as SpecFileWorker, the log-subscriber starting with the    *)
(* sanitized directory of an earlier run in place                          *)
(***************************************************************************)
InitRestart ==
    /\ InitFileWorker
    /\ sanitized = OldDir

SpecRestart == InitRestart /\ [][NextFileWorker]_vars

(***************************************************************************)
(* SpecSubscriber: the topic and the log-subscriber with both workers      *)
(***************************************************************************)
InitBothWorkers ==
    /\ InitTopic
    /\ faults = {"read", "subscribe"}
    /\ pool = KeyedPool
    /\ InitNoProducer
    /\ InitSubscriber

NextSubscriber == PublishRecord \/ Main \/ FileWorker \/ StatsWorker

SpecSubscriber == InitBothWorkers /\ [][NextSubscriber]_vars

(***************************************************************************)
(* SpecIndependence: the log-subscriber with both workers while no call    *)
(* fails and no signal arrives, and the downstream call of one worker      *)
(* hangs: that worker stays inside the processing of a record for ever.    *)
(* The goroutines are scheduled fairly, and ReadMessage returns a message  *)
(* that is there.  A step of SwProcess is possible exactly when            *)
(* SwProcessing holds and it ends SwProcessing, so weak fairness of        *)
(* SwProcess is the condition that SwProcessing does not hold for ever.    *)
(***************************************************************************)
InitIndependence ==
    /\ InitTopic
    /\ \E kind \in HangKinds : faults = {kind}
    /\ pool = KeyedPool
    /\ InitNoProducer
    /\ InitSubscriber

FwSteps == FwSubscribe \/ FwSelect \/ FwRead \/ FwProcess

SwSteps == SwSubscribe \/ SwSelect \/ SwRead \/ SwProcess

\* processLogLine is running and its Insert returns
SwProcessing == Alive /\ swPc = "process" /\ ~Hangs("hangDb")

NextIndependence ==
    PublishRecord \/ DeleteOldSanitizedDir \/ StartWorkers \/ FwSteps \/ SwSteps

SpecIndependence ==
    /\ InitIndependence
    /\ [][NextIndependence]_vars
    /\ WF_vars(DeleteOldSanitizedDir \/ StartWorkers)
    /\ WF_vars(FwSteps)
    /\ WF_vars(SwSubscribe \/ SwSelect \/ SwRead)
    /\ []<>~SwProcessing

(***************************************************************************)
(* SpecPipeline: the log-processor on the files a and b, the topic, and    *)
(* the log-subscriber with both workers, while no call fails and no signal *)
(* arrives                                                                 *)
(***************************************************************************)
InitPipeline ==
    /\ InitTopic
    /\ faults = {}
    /\ pool = {}
    /\ InitProducer
    /\ filePaths = <<FileA, FileB>>
    /\ InitSubscriber

NextPipeline ==
    ProcessLogs \/ ProcessLogFile \/ PublishToKafka
        \/ DeleteOldSanitizedDir \/ StartWorkers \/ FwSteps \/ SwSteps

SpecPipeline == InitPipeline /\ [][NextPipeline]_vars

(***************************************************************************)
(* SpecTopic: the log-processor processes creating the topic, which may    *)
(* exist already                                                           *)
(***************************************************************************)
InitMaybeCreate ==
    /\ \/ topics = <<>> /\ numPartitions = 0
       \/ topics = <<TopicName>> /\ numPartitions \in 1..MaxPartitions
    /\ InitAdmin
    /\ topic = <<>>
    /\ faults = {"admin"}
    /\ pool = {}
    /\ InitNoProducer
    /\ InitNoSubscriber

NextTopic == MaybeCreateKafkaTopic

SpecTopic == InitMaybeCreate /\ [][NextTopic]_vars

(***************************************************************************)
(* SpecTwoRuns: the log-processor with its PublishToKafka goroutines, and  *)
(* another run of it that produces to the same topic                       *)
(***************************************************************************)
InitTwoRuns ==
    /\ InitTopic
    /\ faults = {"produce"}
    /\ pool = {MsgOf(r) : r \in {RecA1, H2}}
    /\ InitProducer
    /\ filePaths \in SeqsUpTo({FileA, FileB}, MaxFiles)
    /\ InitNoSubscriber

NextTwoRuns == ProcessLogs \/ ProcessLogFile \/ PublishToKafka \/ PublishRecord

SpecTwoRuns == InitTwoRuns /\ [][NextTwoRuns]_vars

(***************************************************************************)
(* SpecTermination: the log-processor while the Go scheduler runs a        *)
(* goroutine whenever one can run (it is work-conserving): the process     *)
(* does not stand still while a step of ProcessLogs or of one of its       *)
(* goroutines is possible.  Produce fails in some runs.                    *)
(***************************************************************************)
InitTermination ==
    /\ InitTopic
    /\ faults \in {{}, {"produce"}}
    /\ pool = {}
    /\ InitProducer
    /\ InitNoSubscriber

SpecTermination ==
    /\ InitTermination
    /\ [][Next]_vars
    /\ WF_vars(Next)

(***************************************************************************)
(* Properties                                                              *)
(***************************************************************************)
IsPrefix(a, b) == Len(a) <= Len(b) /\ SubSeq(b, 1, Len(a)) = a

\* ---- reassembly ----

\* the lines are header lines, each followed by continuation lines
HeaderFirst(lines) == lines = <<>> \/ IsHeaderLine(lines[1])

HeaderPositions(lines) == {i \in 1..Len(lines) : IsHeaderLine(lines[i])}

RECURSIVE JoinLines(_, _, _)
JoinLines(lines, a, b) ==
    IF a = b THEN lines[a] ELSE JoinLines(lines, a, b - 1) \o <<NL>> \o lines[b]

\* the records of a file: the n-th is the n-th header line and the lines
\* that follow it up to the next header line
ExpectedRecords(lines) ==
    LET hp == HeaderPositions(lines)
        nth(n) == CHOOSE i \in hp : Cardinality({j \in hp : j <= i}) = n
        last(i) == CHOOSE e \in i..Len(lines) :
                       /\ \A j \in (i + 1)..e : j \notin hp
                       /\ (e = Len(lines) \/ (e + 1) \in hp)
    IN [n \in 1..Cardinality(hp) |-> JoinLines(lines, nth(n), last(nth(n)))]

WithKey(msgs, k) == SelectSeq(msgs, LAMBDA m : m.key = k)

KeysOf(msgs) == {msgs[i].key : i \in 1..Len(msgs)}

HeaderRecord(rec) == rec # <<>> /\ HeaderAt(rec, 1)

\* the (processID, threadID) of a record that starts with a header
ThreadOf(rec) == <<rec[1], rec[3]>>

\* the record was sent once only, by one file
SentOnce(rec) ==
    Cardinality({<<f, i>> \in FileIds \X (1..MaxLines) :
                    i <= Len(sent[f]) /\ sent[f][i] = rec}) = 1

\* C3: two records of one (processID, threadID) that one file holds in the
\* order A then B are produced to the topic in the order A then B.
C3_PerThreadOrder ==
    \A f \in FileIds :
        \A i, j \in 1..Len(sent[f]) :
            (/\ i < j
             /\ HeaderRecord(sent[f][i]) /\ HeaderRecord(sent[f][j])
             /\ ThreadOf(sent[f][i]) = ThreadOf(sent[f][j])
             /\ SentOnce(sent[f][i]) /\ SentOnce(sent[f][j])) =>
                \A p, q \in 1..Len(topic) :
                    (topic[p].value = sent[f][i] /\ topic[q].value = sent[f][j]) => p < q

\* ---- the producer's queue and goroutines ----

Running == {f \in FileIds : asmPc[f] \in {"start", "scan", "send", "sendLast"}}

\* C5: at most maxFilesPerBatch ProcessLogFile goroutines run at a time.
C5_ConcurrencyWidth == Cardinality(Running) <= maxFilesPerBatch

\* more files than the width, a full batch running while a file waits
C5_Witness ==
    /\ NFiles > maxFilesPerBatch
    /\ Cardinality(Running) = maxFilesPerBatch
    /\ \E f \in FileIds : asmPc[f] = "idle"

\* ---- keys and file names ----

\* C6: a record that starts with a header is produced under the key
\* processID-threadID.
C6_PartitionKey ==
    \A i \in 1..Len(topic) :
        HeaderRecord(topic[i].value) =>
            topic[i].key = <<topic[i].value[1], "-", topic[i].value[3]>>

\* the process ids of the headers of the records received by the FileWorker
ReceivedProcessIDs ==
    {<<fwRecv[i].value[1]>> : i \in {j \in 1..Len(fwRecv) : HeaderRecord(fwRecv[j].value)}}

\* C7: the files the FileWorker opens are named after the process ids of
\* the records it received.
C7_SanitizedNaming == \A k \in DOMAIN opens : k \in ReceivedProcessIDs

\* ---- the descriptor cache ----

\* the descriptors of a process id that are open
OpenHandles(k) == Count(opens, k) - Count(closes, k)

Months == {"01", "02", "03", "04", "05", "06", "07", "08", "09", "10", "11", "12"}

\* the pattern matches the record and its timestamp names no month
BadTimestamp(rec) == Matches(rec) /\ Submatch(rec).loggedTime[3] \notin Months

\* the table after the records of done, those with a bad timestamp left out
RECURSIVE RowsWithout(_)
RowsWithout(done) ==
    IF done = <<>> THEN <<>>
    ELSE LET before == RowsWithout(SubSeq(done, 1, Len(done) - 1))
             last == done[Len(done)]
         IN IF BadTimestamp(last.value) THEN before
            ELSE Insert(before, LogLineObj(Submatch(last.value)), last.dbOk)

\* C9: a record whose timestamp does not parse adds no row and leaves the
\* worker in its loop, and the table is what the other records alone
\* would have made it.
C9_ParseDropIsolation ==
    /\ [](rows = RowsWithout(swDone))
    /\ [][(swPc = "process" /\ swPc' # "process" /\ BadTimestamp(swMsg.value)) =>
             (rows' = rows /\ swPc' = "select" /\ subMain' = subMain)]_vars

\* a record with a bad timestamp was dropped, and a later record made a row
C9_Witness ==
    /\ Len(swDone) = 2
    /\ BadTimestamp(swDone[1].value)
    /\ ~BadTimestamp(swDone[2].value)
    /\ Len(rows) = 1
    /\ swPc = "select"

\* C10: a record the pattern does not match never crashes the process.
C10_MismatchDrop ==
    (Len(swRecv) > 0 /\ ~Matches(swRecv[Len(swRecv)].value)) => subMain # "panic"

\* ---- shutdown of the log-subscriber ----

\* every descriptor of the cache was closed once
AllClosed == DOMAIN closes = logFiles /\ \A k \in logFiles : closes[k] = 1

\* C11: after the termination signal the workers finish and the FileWorker
\* closes every cached descriptor before the process exits: when the
\* process has exited, both workers have returned and every descriptor of
\* the cache was closed.
C11_CleanShutdown ==
    subMain = "exited" => (fwPc = "stopped" /\ swPc = "stopped" /\ AllClosed)

\* the states of the FileWorker: Subscribing 1, Running 2, Draining 3,
\* Stopped 4
Phase(pc) ==
    CASE pc = "idle" -> 0
      [] pc \in {"subscribe", "failed"} -> 1
      [] pc \in {"select", "read", "process"} -> 2
      [] pc = "draining" -> 3
      [] pc = "stopped" -> 4

\* C12: the FileWorker moves forward only through Subscribing, Running,
\* Draining, Stopped; it closes no descriptor while Running; once it has
\* seen the cancellation it receives no record, opens and writes no file;
\* and when it has returned every cached descriptor was closed exactly once.
C12_SanitizerDrain ==
    /\ [][Phase(fwPc') >= Phase(fwPc)]_vars
    /\ [](Phase(fwPc) <= 3 => closes = <<>>)
    /\ [][Phase(fwPc) >= 3 =>
            (/\ fwRecv' = fwRecv /\ fwOff' = fwOff /\ sanitized' = sanitized
             /\ logFiles' = logFiles /\ opens' = opens)]_vars
    /\ [][Phase(fwPc) = 4 => closes' = closes]_vars
    /\ [](fwPc = "stopped" => AllClosed)

\* the FileWorker has returned after closing the descriptors of two files
\* it wrote
C12_Witness ==
    /\ fwPc = "stopped"
    /\ Cardinality(logFiles) = 2
    /\ AllClosed
    /\ \A k \in logFiles : sanitized[FileName(k)] # <<>>

\* ---- failure of SubscribeTopics ----

\* C14 as stated: when the subscription of one worker fails, the process
\* stays alive for the other worker.
C14_SubscriptionIsolation == (fwPc = "failed" \/ swPc = "failed") => Alive

\* C14 amended: when the subscription of a worker fails the whole process
\* ends with a fatal error, and neither worker takes another step.
C14_SubscriptionFatal ==
    /\ []((fwPc = "failed" \/ swPc = "failed") => subMain = "fatal")
    /\ [][(fwPc = "failed" \/ swPc = "failed") => UNCHANGED <<subMain, fwVars, swVars>>]_vars

\* the subscription of the StatsWorker failed while the FileWorker was
\* processing a record
C14_Witness ==
    /\ swPc = "failed"
    /\ fwPc = "process"
    /\ subMain = "fatal"

\* ---- the two consumer groups ----

\* the worker has received and processed every message of the topic
FwCaughtUp == Len(fwRecv) = Len(topic) /\ fwPc \in {"select", "read"}

SwCaughtUp == Len(swDone) = Len(topic) /\ swPc \in {"select", "read"}

\* C13: each worker reads at its own offsets, and while one worker stays
\* inside the processing of a record for ever the other receives and
\* processes every message published.
C13_GroupIndependence ==
    /\ [][fwOff' # fwOff => swOff' = swOff]_vars
    /\ [][swOff' # swOff => fwOff' = fwOff]_vars
    /\ (Hangs("hangWrite") => <>[]SwCaughtUp)
    /\ (Hangs("hangDb") => <>[]FwCaughtUp)

\* the FileWorker is inside the processing of the first record while the
\* StatsWorker has processed all three
C13_Witness ==
    /\ Hangs("hangWrite")
    /\ fwPc = "process"
    /\ Len(fwRecv) = 1
    /\ Len(topic) = MaxMsgs
    /\ Len(swDone) = MaxMsgs
    /\ Len(rows) = MaxMsgs

\* ---- the whole pipeline ----

\* the log-processor has finished, and both workers have received and
\* processed every message of the topic
PipelineDone ==
    /\ mainPc = "done"
    /\ \A b \in BatchIds : pubPc[b] = "done"
    /\ FwCaughtUp
    /\ SwCaughtUp

\* the sanitized directory of the scenario: 1.log with the two records of
\* a in file order, 2.log with the record of b
ExpectedSanitized ==
    [n \in {<<"1", ".log">>, <<"2", ".log">>} |->
        IF n = <<"1", ".log">> THEN RecA1 \o <<NL>> \o H1b \o <<NL>>
                               ELSE H2 \o <<NL>>]

\* the rows of the table with a process id
RowsOf(pid) == {i \in 1..Len(rows) : rows[i].process_id = pid}

\* C15: after the pipeline has run on the files a and b, the sanitized
\* directory holds exactly 1.log and 2.log with their records, and the
\* table holds exactly three rows, two of process 1 and one of process 2.
C15_EndToEnd ==
    PipelineDone =>
        /\ sanitized = ExpectedSanitized
        /\ Len(rows) = 3
        /\ Cardinality(RowsOf("1")) = 2
        /\ Cardinality(RowsOf("2")) = 1

\* ---- a directory without files ----

\* C16: with no file in the input directory ProcessLogs never enters the
\* batch loop: it starts no ProcessLogFile and no PublishToKafka goroutine,
\* nothing is sent or produced, and it closes the channel and returns.
C16_ZeroFiles ==
    NFiles = 0 =>
        /\ mainPc \in {"loop", "done"}
        /\ DOMAIN asmPc = {} /\ DOMAIN pubPc = {}
        /\ wg = 0
        /\ logLines = <<>>
        /\ topic = <<>>
        /\ (mainPc = "done" <=> chClosed)
        /\ (mainPc = "loop" => ENABLED CloseLogLines)

\* ProcessLogs has returned from an empty directory
C16_Witness ==
    /\ NFiles = 0
    /\ mainPc = "done"
    /\ chClosed
    /\ topic = <<>>

\* ---- a file that cannot be opened ----

\* C17: the goroutine of a file that cannot be opened sends nothing and
\* finishes; the WaitGroup counts the goroutines still running, so the
\* barrier is released; ProcessLogs is never stuck; and when it has
\* returned every file was handled, the files that could be opened
\* completely.
C17_UnopenableFile ==
    /\ \A f \in FileIds :
          ~filePaths[f].ok => (sent[f] = <<>> /\ asmPc[f] \in {"idle", "start", "done"})
    /\ wg = Cardinality(Running)
    /\ (mainPc # "done" => ENABLED Next)
    /\ mainPc = "done" =>
          \A f \in FileIds :
              /\ asmPc[f] = "done"
              /\ (filePaths[f].ok /\ HeaderFirst(filePaths[f].lines)) =>
                     sent[f] = ExpectedRecords(filePaths[f].lines)

\* ProcessLogs has returned; the first batch held a file that could not
\* be opened and a file of two records, both sent, and the file of the
\* second batch was assembled too
C17_Witness ==
    /\ mainPc = "done"
    /\ NFiles = 3
    /\ \E f, g \in BatchFiles(0) :
          /\ ~filePaths[f].ok
          /\ filePaths[g].ok
          /\ Len(sent[g]) = 2
    /\ filePaths[3].ok
    /\ Len(sent[3]) > 0

\* ---- creation of the topic ----

\* the topics of a name
Named(ts, name) == {i \in 1..Len(ts) : ts[i] = name}

\* C18: MaybeCreateKafkaTopic never returns an error because the topic
\* exists (only when a request to the broker fails); a call leaves an
\* existing topic as it is; and whatever the calls of the processes and
\* their interleaving, there is at most one topic of the name, and exactly
\* one once a call has returned nil.
C18_IdempotentCreate ==
    /\ [](\A p \in Producers : mcRet[p] \in {"none", "nil", "requestError"})
    /\ [](Cardinality(Named(topics, TopicName)) <= 1)
    /\ [](\A p \in Producers :
            mcRet[p] = "nil" => Cardinality(Named(topics, TopicName)) = 1)
    /\ [][TopicExists(topics, TopicName) =>
            (topics' = topics /\ numPartitions' = numPartitions)]_vars

\* a process called a second time and found the topic it had created
\* (it returned nil), while the other process, which had found no topic
\* before that, has called CreateTopics too and met the topic
C18_Witness ==
    /\ mcCalls[1] = 2
    /\ mcPc[1] = "idle"
    /\ mcRet[1] = "nil"
    /\ mcCalls[2] = 1
    /\ mcPc[2] = "created"
    /\ topics = <<TopicName>>
    /\ numPartitions = 1

\* ---- the partition of a message ----

\* the number of times the goroutines of this run have sent the record
TimesSent(rec) ==
    Cardinality({<<f, i>> \in FileIds \X (1..MaxLines) :
                    i <= Len(sent[f]) /\ sent[f][i] = rec})

C20_SecondTruncation ==
    \A i \in 1..Len(rows) :
        LET s == rows[i].timestamp_seconds - Epoch2023 IN
        /\ s * 1000 <= rows[i].timestamp
        /\ rows[i].timestamp < (s + 1) * 1000

\* two rows of the same second, one at its start and one in its second
\* half
C20_Witness ==
    \E i, j \in 1..Len(rows) :
        /\ rows[i].timestamp % 1000 = 0
        /\ rows[j].timestamp = rows[i].timestamp + 500
        /\ rows[i].timestamp_seconds = rows[j].timestamp_seconds

\* ---- the barrier between batches ----

\* C21: ProcessLogs cuts the file list into consecutive batches of
\* maxFilesPerBatch files, and starts no goroutine of a batch before every
\* goroutine of the batch before it has finished: the files with a
\* goroutine started are the first k batches, and every file before the
\* k-th batch is finished.  (The channel may hold records all the while.)
C21_BatchBarrier ==
    \E k \in 0..NFiles :
        /\ \A f \in FileIds : (asmPc[f] # "idle") <=> (f <= k * maxFilesPerBatch)
        /\ \A f \in FileIds : f <= (k - 1) * maxFilesPerBatch => asmPc[f] = "done"

\* a goroutine of the second batch has started and nothing of that batch
\* was sent yet, while the channel still holds a record of the first batch
C21_Witness ==
    /\ logLines # <<>>
    /\ \E g \in FileIds : BatchOf(g) = 2 /\ asmPc[g] \in {"start", "scan"}
    /\ \A g \in FileIds : BatchOf(g) = 2 => sent[g] = <<>>
    /\ \E f \in FileIds :
          /\ BatchOf(f) = 1
          /\ sent[f] # <<>>
          /\ logLines[1] = sent[f][Len(sent[f])]

\* ---- the PublishToKafka goroutines ----

\* the PublishToKafka goroutines started so far
PublishersStarted == {b \in BatchIds : pubPc[b] # "idle"}

\* the batches with a ProcessLogFile goroutine started
BatchesStarted == {BatchOf(f) : f \in {g \in FileIds : asmPc[g] # "idle"}}

\* the least k with k * b >= a
CeilDiv(a, b) == CHOOSE k \in 0..a : k * b >= a /\ (k - 1) * b < a

\* C22: ProcessLogs starts one PublishToKafka goroutine for each batch:
\* there are as many of them as batches started, and when ProcessLogs has
\* returned from F files there are ceil(F / maxFilesPerBatch).
C22_PublisherPerBatch ==
    /\ Cardinality(PublishersStarted) = Cardinality(BatchesStarted)
    /\ mainPc = "done" =>
          Cardinality(PublishersStarted) = CeilDiv(NFiles, maxFilesPerBatch)

\* ProcessLogs has returned from three files, a full batch and a batch of
\* one file, with two PublishToKafka goroutines started
C22_Witness ==
    /\ mainPc = "done"
    /\ NFiles = maxFilesPerBatch + 1
    /\ Cardinality(PublishersStarted) = 2

\* ---- the mutex of logLine ----

\* the goroutine of file f holds logLineMutex
HoldsMutex(f) == asmPc[f] \in {"send", "sendLast"}

\* C23: the mutex that guards the log line of a goroutine is that
\* goroutine's own: while one goroutine holds its mutex (waiting to send,
\* say), the goroutine of any other file that is scanning can take its
\* next step, appending a line or going to send its record.
C23_AssemblerScopedGuard ==
    \A f, g \in FileIds :
        (f # g /\ HoldsMutex(f) /\ asmPc[g] = "scan") =>
            ENABLED (ScanLine(g) \/ EndOfFile(g))

\* ---- termination of ProcessLogs ----

AllAssembled == \A f \in FileIds : asmPc[f] = "done"

\* C24: with fair scheduling ProcessLogs returns, whatever the files.  A
\* goroutine is started for a file once only (the file was in no batch
\* before); the channel is closed once, by the step that ends ProcessLogs,
\* when the goroutine of every file has finished; and nothing of
\* ProcessLogs runs after that.
C24_ProducerTermination ==
    /\ <>(mainPc = "done")
    /\ [][\A f \in FileIds :
            (asmPc'[f] = "start" /\ asmPc[f] # "start") => asmPc[f] = "idle"]_vars
    /\ [][chClosed' # chClosed =>
            (~chClosed /\ mainPc = "loop" /\ mainPc' = "done" /\ AllAssembled)]_vars
    /\ [](mainPc = "done" => (chClosed /\ AllAssembled /\ wg = 0))
    /\ [][mainPc = "done" => (mainPc' = "done" /\ batchI' = batchI)]_vars

\* ProcessLogs has returned from two batches, the first of two files that
\* each sent records through the channel of capacity maxParallelLines
C24_Witness ==
    /\ mainPc = "done"
    /\ NBatches = 2
    /\ chClosed
    /\ \A f \in BatchFiles(0) : sent[f] # <<>>
    /\ Len(sent[1]) + Len(sent[2]) > maxParallelLines

\* ---- the records of the channel ----

\* the number of times a sequence holds x
Occ(seq, x) == Cardinality({i \in 1..Len(seq) : seq[i] = x})

\* the records the ProcessLogFile goroutines have sent
RecordsSent == UNION {{sent[f][i] : i \in 1..Len(sent[f])} : f \in FileIds}

\* the PublishToKafka goroutines that hold the record, received and not
\* yet handled
Holding(rec) == {b \in BatchIds : pubPc[b] = "produce" /\ pubLogLine[b] = rec}

\* the number of messages of the topic with the record as value
Produced(rec) == Cardinality({i \in 1..Len(topic) : topic[i].value = rec})

AllPublishersDone == \A b \in BatchIds : pubPc[b] = "done"

\* C25: every record sent on the channel is received by one
\* PublishToKafka goroutine, once, and produced or dropped as invalid: a
\* record is in the channel, held by goroutines and on the topic together
\* never more often than it was sent, and exactly as often when it is valid
\* and Produce does not fail; an invalid record never reaches the topic.  A
\* PublishToKafka goroutine has no step while the channel is empty and
\* open, it ends only when the channel is closed and empty, and in the end
\* every one of them has ended, the channel is empty and every valid
\* record is on the topic as often as it was sent.
C25_QueueDrain ==
    /\ [](\A rec \in RecordsSent :
            LET n == Occ(logLines, rec) + Cardinality(Holding(rec)) + Produced(rec) IN
            /\ n <= TimesSent(rec)
            /\ (~InvalidLogLine(rec) /\ faults = {}) => n = TimesSent(rec)
            /\ InvalidLogLine(rec) => Produced(rec) = 0)
    /\ [](\A i \in 1..Len(topic) : topic[i].value \in RecordsSent)
    /\ [](\A b \in BatchIds :
            (pubPc[b] = "range" /\ logLines = <<>> /\ ~chClosed) =>
                ~ENABLED (RangeRecv(b) \/ RangeEnd(b) \/ PublishLine(b)))
    /\ [][\A b \in BatchIds :
            (pubPc'[b] = "done" /\ pubPc[b] # "done") => (chClosed /\ logLines = <<>>)]_vars
    /\ <>[](/\ AllPublishersDone
            /\ logLines = <<>>
            /\ \A rec \in RecordsSent :
                  (~InvalidLogLine(rec) /\ faults = {}) => Produced(rec) = TimesSent(rec))

\* every PublishToKafka goroutine has ended with the channel empty; of
\* the two records sent, the invalid one was dropped and the valid one is
\* on the topic
C25_Witness ==
    /\ faults = {}
    /\ NFiles > 0
    /\ AllPublishersDone
    /\ logLines = <<>>
    /\ Cardinality(RecordsSent) = 2
    /\ \E rec \in RecordsSent : InvalidLogLine(rec)
    /\ Len(topic) = 1

\* ---- cancellation and the record in hand ----

\* the messages the FileWorker received for the file of a name
ReceivedFor(name) ==
    {i \in 1..Len(fwRecv) :
        ~InvalidKey(fwRecv[i].key) /\ FileName(ProcessID(fwRecv[i].key)) = name}

\* every message the FileWorker received under a valid key was written:
\* each file holds as many lines as messages were received for it
\* (the values here are single lines, and no open or write fails)
AllWritten ==
    \A i \in 1..Len(fwRecv) :
        ~InvalidKey(fwRecv[i].key) =>
            LET name == FileName(ProcessID(fwRecv[i].key)) IN
            /\ name \in DOMAIN sanitized
            /\ Occ(sanitized[name], NL) = Cardinality(ReceivedFor(name))

\* C26: a worker looks at the cancellation only in its select, before
\* ReadMessage: a message received goes to processing, processing ends in
\* the select and nowhere else, and the worker leaves its loop from the
\* select only.  So when a worker has left its loop every message it
\* received was processed to the end: written by the FileWorker, handled
\* by processLogLine in the StatsWorker.
C26_CooperativeCancel ==
    /\ [][(fwRecv' # fwRecv => fwPc' = "process")
            /\ (swRecv' # swRecv => swPc' = "process")]_vars
    /\ [][(fwPc = "process" /\ fwPc' # "process" => fwPc' = "select")
            /\ (swPc = "process" /\ swPc' # "process" => swPc' = "select")]_vars
    /\ [][(fwPc' = "draining" /\ fwPc # "draining" => fwPc = "select" /\ ctxDone)
            /\ (swPc' = "stopped" /\ swPc # "stopped" => swPc = "select" /\ ctxDone)]_vars
    /\ [](fwPc \in {"draining", "stopped"} => AllWritten)
    /\ [](swPc = "stopped" => Len(swDone) = Len(swRecv))

\* after the cancellation the FileWorker has returned with all three
\* messages written, and the StatsWorker, which has a message in hand, has
\* not left its loop
C26_Witness ==
    /\ ctxDone
    /\ fwPc = "stopped"
    /\ Len(fwRecv) = MaxMsgs
    /\ AllWritten
    /\ swPc = "process"
    /\ Len(swDone) = Len(swRecv) - 1

\* ---- a write that fails ----

\* the values of the messages the FileWorker received for the file of a
\* name, in the order received
ValuesFor(name) ==
    LET idx == SelectSeq([i \in 1..Len(fwRecv) |-> i], LAMBDA i : i \in ReceivedFor(name))
    IN [j \in 1..Len(idx) |-> fwRecv[idx[j]].value]

\* what a file can hold after writes of some of the values, in their
\* order, each written at most once
RECURSIVE Writes(_)
Writes(values) ==
    IF values = <<>> THEN {<<>>}
    ELSE LET before == Writes(SubSeq(values, 1, Len(values) - 1)) IN
         before \cup {c \o values[Len(values)] \o <<NL>> : c \in before}

\* the content of a file of the directory, none if there is no such file
Content(dir, name) == IF name \in DOMAIN dir THEN dir[name] ELSE <<>>

\* the step ends the processing of a message for which WriteString was
\* called (the descriptor was cached, or was just opened) and failed:
\* the file did not grow
WriteFailedStep ==
    /\ fwPc = "process" /\ fwPc' # "process"
    /\ ~InvalidKey(fwMsg.key)
    /\ Cached(logFiles, ProcessID(fwMsg.key)) \/ opens' # opens
    /\ Content(sanitized', FileName(ProcessID(fwMsg.key)))
          = Content(sanitized, FileName(ProcessID(fwMsg.key)))

\* C27: when WriteString fails the descriptor is in the cache as before
\* (or as just opened) and is not closed, the worker is back at its select
\* in a process that goes on, and the message is not received again: the
\* offsets stay, nothing is put back on the topic, and no file ever holds
\* a received message twice.
C27_WriteFailure ==
    /\ [][WriteFailedStep =>
            (/\ logFiles' = logFiles \cup {ProcessID(fwMsg.key)}
             /\ closes' = closes
             /\ fwPc' = "select"
             /\ subMain' = subMain
             /\ fwOff' = fwOff /\ fwRecv' = fwRecv /\ topic' = topic)]_vars
    /\ [](fwPc \notin {"idle", "subscribe", "failed"} =>
            \A name \in DOMAIN sanitized : sanitized[name] \in Writes(ValuesFor(name)))

\* three messages of one process id were processed: the first was written
\* through a descriptor opened for it, the write of the second failed, and
\* the third was written through the same descriptor
C27_Witness ==
    /\ fwPc = "select"
    /\ Len(fwRecv) = 3
    /\ \A i \in 1..3 : fwRecv[i].key = fwRecv[1].key
    /\ ~InvalidKey(fwRecv[1].key)
    /\ fwRecv[3].value = fwRecv[1].value
    /\ fwRecv[2].value # fwRecv[1].value
    /\ Count(opens, ProcessID(fwRecv[1].key)) = 1
    /\ Content(sanitized, FileName(ProcessID(fwRecv[1].key)))
          = fwRecv[1].value \o <<NL>> \o fwRecv[3].value \o <<NL>>

\* ---- a key without the delimiter ----

\* the key holds no hyphen
NoDelimiter(key) == \A i \in 1..Len(Chars(key)) : Chars(key)[i] # "-"

\* C28: a message whose key holds no hyphen is dropped: the step that
\* ends its processing opens, caches, writes and closes nothing and leaves
\* the worker at its select in a process that goes on; so every cached
\* descriptor and every file of the directory belongs to a received
\* message whose key holds a hyphen.
C28_MalformedKey ==
    /\ [][(fwPc = "process" /\ fwPc' # "process" /\ NoDelimiter(fwMsg.key)) =>
            (/\ UNCHANGED <<logFiles, opens, closes, sanitized>>
             /\ fwPc' = "select"
             /\ subMain' = subMain)]_vars
    /\ [](fwPc \notin {"idle", "subscribe", "failed"} =>
            /\ \A k \in logFiles :
                  \E i \in 1..Len(fwRecv) :
                      ~NoDelimiter(fwRecv[i].key) /\ ProcessID(fwRecv[i].key) = k
            /\ \A name \in DOMAIN sanitized :
                  \E i \in 1..Len(fwRecv) :
                      ~NoDelimiter(fwRecv[i].key)
                          /\ FileName(ProcessID(fwRecv[i].key)) = name)

\* a message whose key holds no hyphen was dropped, and the message after
\* it was written to its file, the only file there is
C28_Witness ==
    /\ fwPc = "select"
    /\ Len(fwRecv) = 2
    /\ NoDelimiter(fwRecv[1].key)
    /\ ~NoDelimiter(fwRecv[2].key)
    /\ DOMAIN sanitized = {FileName(ProcessID(fwRecv[2].key))}
    /\ sanitized[FileName(ProcessID(fwRecv[2].key))] = fwRecv[2].value \o <<NL>>
    /\ logFiles = {ProcessID(fwRecv[2].key)}

\* ---- an insert that fails ----

\* the step is a return of processLogLine whose Insert met a store that
\* failed
InsertFailedStep == swDone' # swDone /\ ~swDone'[Len(swDone')].dbOk

\* C29: when the Insert of a record fails the table stays as it is, the
\* worker is back at its select in a process that goes on, and the record
\* is not taken up again: the offsets stay, nothing is put back on the
\* topic, processLogLine has run at most once for each message received,
\* and the table has no more rows than Inserts that met a working store.
C29_PersistenceFailure ==
    /\ [][InsertFailedStep =>
            (/\ rows' = rows
             /\ swPc' = "select"
             /\ subMain' = subMain
             /\ swOff' = swOff /\ swRecv' = swRecv /\ topic' = topic)]_vars
    /\ [](Len(swDone) <= Len(swRecv))
    /\ [](\A i \in 1..Len(swDone) : swDone[i].value = swRecv[i].value)
    /\ [](Len(rows) <= Cardinality({i \in 1..Len(swDone) : swDone[i].dbOk}))

\* the Insert of a first record failed and the record after it, another
\* one, made the only row of the table
C29_Witness ==
    /\ swPc = "select"
    /\ Len(swDone) = 2
    /\ ~swDone[1].dbOk /\ ~BadTimestamp(swDone[1].value)
    /\ swDone[2].dbOk
    /\ swDone[2].value # swDone[1].value
    /\ rows = <<LogLineObj(Submatch(swDone[2].value))>>

\* ---- the sanitized directory of an earlier run ----

\* C30: main removes the sanitized directory before it creates the
\* consumers and starts the workers: while main has not got past the
\* removal no worker exists and nothing was received; the directory
\* changes only by the removal and, after it, by the FileWorker processing
\* a message; the workers start on a removed directory; and once the
\* FileWorker exists every file holds nothing but messages received in
\* this run, each at most once, in the order received.
C30_ClearedFirst ==
    /\ [](subMain = "start" =>
            (fwPc = "idle" /\ swPc = "idle" /\ fwRecv = <<>> /\ sanitized = OldDir))
    /\ [][sanitized' # sanitized =>
            \/ subMain = "start" /\ sanitized' = EmptyDir
            \/ subMain # "start" /\ fwPc = "process"]_vars
    /\ [][(fwPc = "idle" /\ fwPc' # "idle") => sanitized = EmptyDir]_vars
    /\ [](fwPc # "idle" =>
            \A name \in DOMAIN sanitized : sanitized[name] \in Writes(ValuesFor(name)))

\* the file 1.log, which held a record of the earlier run, now holds the
\* one record received for it in this run, another one
C30_Witness ==
    /\ fwPc = "select"
    /\ Len(fwRecv) = 1
    /\ DOMAIN sanitized = DOMAIN OldDir
    /\ \A name \in DOMAIN sanitized :
          /\ sanitized[name] = fwRecv[1].value \o <<NL>>
          /\ sanitized[name] # OldDir[name]

\* ---- the StatsWorker's connection to the store ----

\* C31: when the StatsWorker has seen the cancellation and returned, it
\* receives nothing more and has closed its connection to the store.
C31_StatsDrain ==
    /\ [][swPc = "stopped" => (swRecv' = swRecv /\ swOff' = swOff /\ rows' = rows)]_vars
    /\ [](swPc = "stopped" => swDb = "closed")

\* ---- the files of the sanitized directory ----

\* the values of a sequence one after the other
RECURSIVE Flat(_)
Flat(values) ==
    IF values = <<>> THEN <<>> ELSE values[1] \o Flat(Tail(values))

\* the step leaves the file of a name as it is
Kept(name) == Content(sanitized', name) = Content(sanitized, name)

\* the step puts the value of the message in hand and a newline at the
\* end of the file of a name
Appended(name) ==
    /\ name \in DOMAIN sanitized'
    /\ sanitized'[name] = Content(sanitized, name) \o fwMsg.value \o <<NL>>

Draining == {b \in BatchIds : pubPc[b] \in {"range", "produce"}}

\* C33: at most one PublishToKafka goroutine is inside its range over the
\* channel at any time.
C33_SingleDrainer == Cardinality(Draining) <= 1

\* ---- the close of the channel ----

\* the ProcessLogFile goroutines at a send on the channel
Sending == {f \in FileIds : asmPc[f] \in {"send", "sendLast"}}

\* C34: close(logLines) comes after the loop over the batches, each of
\* which ends in wg.Wait: the step that closes the channel finds every
\* ProcessLogFile goroutine returned and the counter at zero, and on the
\* closed channel no goroutine is at a send and nothing is sent.
C34_NoSendAfterClose ==
    /\ [][(chClosed' /\ ~chClosed) => (AllAssembled /\ wg = 0)]_vars
    /\ [](chClosed => (AllAssembled /\ Sending = {}))
    /\ [][chClosed => (sent' = sent /\ Len(logLines') <= Len(logLines))]_vars

\* the channel is closed after two batches, of which the first and the
\* second each sent a record
C34_Witness ==
    /\ chClosed
    /\ NBatches >= 2
    /\ \E f \in BatchFiles(0) : sent[f] # <<>>
    /\ \E f \in BatchFiles(maxFilesPerBatch) : sent[f] # <<>>

\* ---- lines before the first header of a file ----

\* C35: every record on the topic starts with a header line, and so
\* matches the pattern of processLogLine.
C35_HeaderFirst ==
    \A i \in 1..Len(topic) :
        HeaderRecord(topic[i].value) /\ Matches(topic[i].value)

\* ---- rows of one key ----

\* the primary key of a row
KeyOf(row) == <<row.process_id, row.thread_id, row.timestamp, row.timestamp_seconds>>

\* the row processLogLine makes of a record
RowOf(rec) == LogLineObj(Submatch(rec))

\* the records handled so far that were parsed to the end ...
Parsed == {i \in 1..Len(swDone) : ~BadTimestamp(swDone[i].value)}

\* ... and those of them whose Insert met a store that worked
Stored == {i \in Parsed : swDone[i].dbOk}

\* no two rows of the table have the same key
UniqueKeys == \A i, j \in 1..Len(rows) : KeyOf(rows[i]) = KeyOf(rows[j]) => i = j

\* the table holds, for each key of the records of the set, the row of
\* the first of them, and no other row
FirstKept(recs) ==
    /\ {KeyOf(rows[i]) : i \in 1..Len(rows)} = {KeyOf(RowOf(swDone[i].value)) : i \in recs}
    /\ \A i \in recs :
          (\A j \in recs : KeyOf(RowOf(swDone[j].value)) = KeyOf(RowOf(swDone[i].value)) => i <= j)
              => \E k \in 1..Len(rows) : rows[k] = RowOf(swDone[i].value)

\* C36 as stated: no two rows share a key, and the table holds the row of
\* the first record of each key among the records parsed to the end, so
\* it has as many rows as these records have keys.
C36_RowPerParsedKey ==
    /\ UniqueKeys
    /\ FirstKept(Parsed)
    /\ Len(rows) = Cardinality({KeyOf(RowOf(swDone[i].value)) : i \in Parsed})

\* C36: no two rows share a key; a record whose key a row already has
\* leaves the table as it is; and the table holds the row of the first
\* record of each key among the records that were parsed to the end and
\* whose Insert met a working store, so it has as many rows as these
\* records have keys (and no more rows than the parsed records have keys).
C36_RowUniqueness ==
    /\ [](UniqueKeys /\ FirstKept(Stored))
    /\ [](Len(rows) = Cardinality({KeyOf(RowOf(swDone[i].value)) : i \in Stored}))
    /\ [](Len(rows) <= Cardinality({KeyOf(RowOf(swDone[i].value)) : i \in Parsed}))
    /\ [][(/\ swPc = "process" /\ swPc' = "select"
            /\ ~BadTimestamp(swMsg.value)
            /\ \E k \in 1..Len(rows) : KeyOf(rows[k]) = KeyOf(RowOf(swMsg.value)))
              => rows' = rows]_vars

\* two different records of one key were handled with the store working:
\* the table holds the row of the first and nothing else
C36_Witness ==
    /\ swPc = "select"
    /\ Len(swDone) = 2
    /\ Stored = {1, 2}
    /\ swDone[1].value # swDone[2].value
    /\ KeyOf(RowOf(swDone[1].value)) = KeyOf(RowOf(swDone[2].value))
    /\ RowOf(swDone[1].value) # RowOf(swDone[2].value)
    /\ rows = <<RowOf(swDone[1].value)>>

\* ---- an open that fails ----

\* the step ends the processing of a message with a key that has the
\* delimiter and no descriptor in the cache, and no file was opened: the
\* open failed
OpenFailedStep ==
    /\ fwPc = "process" /\ fwPc' # "process"
    /\ ~NoDelimiter(fwMsg.key)
    /\ ProcessID(fwMsg.key) \notin logFiles
    /\ opens' = opens

\* the FileWorker has a message in hand whose key has the delimiter and
\* no descriptor in the cache
Uncached ==
    /\ Alive /\ fwPc = "process"
    /\ ~NoDelimiter(fwMsg.key)
    /\ ProcessID(fwMsg.key) \notin logFiles

\* C37: when the open for a key without a descriptor fails, nothing is
\* written, the cache and the directory stay as they are, the worker is
\* back at its select in a process that goes on, and the message is not
\* taken up again; the cache holds only keys for which an open
\* succeeded; and for a message whose key has no descriptor, whatever
\* came before, the open is attempted: a step that opens the file is
\* possible.
C37_OpenFailure ==
    /\ [][OpenFailedStep =>
            (/\ logFiles' = logFiles
             /\ sanitized' = sanitized
             /\ closes' = closes
             /\ fwPc' = "select"
             /\ subMain' = subMain
             /\ fwOff' = fwOff /\ fwRecv' = fwRecv /\ topic' = topic)]_vars
    /\ [](\A k \in logFiles : Count(opens, k) >= 1)
    /\ [](Uncached =>
            ENABLED (FwProcess /\ opens' = Inc(opens, ProcessID(fwMsg.key))))

\* the open for the first message of a key failed (there is no file and
\* no descriptor, and nothing was opened), and the worker has the next
\* message of the same key in hand, without a descriptor
C37_Witness ==
    /\ Uncached
    /\ Len(fwRecv) = 2
    /\ fwMsg = fwRecv[2]
    /\ fwRecv[1].key = fwRecv[2].key
    /\ logFiles = {}
    /\ opens = <<>>
    /\ DOMAIN sanitized = {}

\* ---- the queries of the api-server ----

\* the rows logged from second start to second end, both included
RowsBetween(start, end) ==
    {i \in 1..Len(rows) :
        start <= rows[i].timestamp_seconds /\ rows[i].timestamp_seconds <= end}

\* the elements of an array of a response
Elems(array) == {array[i] : i \in 1..Len(array)}

\* the step serves a request of a kind
Served(op) == apiResp' # apiResp /\ apiResp'.op = op

\* C38: the response to a basic stats request for start and end holds
\* the number of distinct thread_id among the rows with
\* start <= timestamp_seconds <= end, and arrays with each distinct
\* thread_id and each distinct process_id of these rows, once each.
C38_BasicStats ==
    [][Served("basicStats") =>
        LET sel == RowsBetween(apiResp'.start, apiResp'.end)
            tids == {rows[i].thread_id : i \in sel}
            pids == {rows[i].process_id : i \in sel}
            r == apiResp'.result
        IN /\ r.active_threads_count = Cardinality(tids)
           /\ Elems(r.active_thread_ids) = {Atoi(t) : t \in tids}
           /\ Len(r.active_thread_ids) = Cardinality(tids)
           /\ Elems(r.active_process_ids) = {Atoi(t) : t \in pids}
           /\ Len(r.active_process_ids) = Cardinality(pids)]_vars

\* a request for one second, start = end, was served from a table with
\* rows of two threads of one process in that second: both are counted
C38_Witness ==
    /\ apiResp.op = "basicStats"
    /\ apiResp.start = Epoch2023 + 1 /\ apiResp.end = Epoch2023 + 1
    /\ apiResp.result = [active_threads_count |-> 2,
                         active_thread_ids |-> <<10, 11>>,
                         active_process_ids |-> <<1>>]
    /\ Len(rows) = MaxMsgs

\* the number of distinct thread_id logged in a second
ThreadsIn(s) ==
    Cardinality({rows[i].thread_id :
                    i \in {j \in 1..Len(rows) : rows[j].timestamp_seconds = s}})

\* C39: when the table has a row, the response to a max concurrent
\* threads request names a second of some row and the number of distinct
\* thread_id logged in it, and no second has more.
C39_MaxConcurrentThreads ==
    [][(Served("maxConcurrentThreads") /\ rows # <<>>) =>
        /\ ~apiResp'.err
        /\ LET r == apiResp'.result IN
           /\ \E i \in 1..Len(rows) : rows[i].timestamp_seconds = r.timestamp_seconds
           /\ r.concurrent_threads = ThreadsIn(r.timestamp_seconds)
           /\ \A i \in 1..Len(rows) :
                 ThreadsIn(rows[i].timestamp_seconds) <= r.concurrent_threads]_vars

\* the request was served from a table with rows of two seconds, one
\* with two threads and one with one thread: the response names the
\* second with two
C39_Witness ==
    /\ apiResp.op = "maxConcurrentThreads"
    /\ ~apiResp.err
    /\ apiResp.result = [timestamp_seconds |-> Epoch2023 + 1, concurrent_threads |-> 2]
    /\ Len(rows) = MaxMsgs
    /\ ThreadsIn(Epoch2023 + 1) = 2
    /\ \E i \in 1..Len(rows) : rows[i].timestamp_seconds # Epoch2023 + 1

\* ---- sends under the mutex ----

\* the goroutine of file f is at a send on a full channel
Blocked(f) == f \in Sending /\ Len(logLines) >= maxParallelLines

\* C40: a goroutine is at a send only with logLineMutex held, and the
\* mutex is one for the process: at most one ProcessLogFile goroutine is
\* at a send, and while one is, the logLine of every other goroutine
\* stays as it is.
C40_SerializedSends ==
    /\ [](Cardinality(Sending) <= 1)
    /\ [](\A f \in Sending : logLineMutex = f)
    /\ [][\A f \in Sending : \A g \in FileIds \ {f} : logLine'[g] = logLine[g]]_vars

\* a goroutine is blocked at its send on the full channel while another
\* goroutine, with a record in progress and lines left to scan, waits
C40_Witness ==
    \E f, g \in FileIds :
        /\ f # g
        /\ Blocked(f)
        /\ asmPc[g] = "scan"
        /\ logLine[g] # <<>>
        /\ asmPos[g] < Len(filePaths[g].lines)

============================================================================
